---- MODULE Spec2Model ----
(***************************************************************************)
(* Model of the meal-photo nutrition pipeline of test_food_lookup.py:      *)
(* vision analysis (vision_infer.py), dish grouping, per-item lookup in    *)
(* the food database (food_lookup.py), quantity scaling and totals, and    *)
(* the emission of the text and HTML reports.                              *)
(*                                                                         *)
(* Representation.                                                         *)
(*  - A Python str that the code inspects (lower(), `in`, dict key) is a   *)
(*    sequence of characters, each character a one-token string: an ASCII  *)
(*    character is itself ("a", "T", " "), any other character is its      *)
(*    code point ("u6C41" for U+6C41).  The original text is given in the  *)
(*    comment beside each literal.                                         *)
(*  - A Python dict is a function; `k in d` is k \in DOMAIN d.             *)
(*  - None is <<>> and a present value x is <<x>> (fdc_id).                *)
(*  - A per-100 nutrient amount is held in tenths (85.0 is 850), a         *)
(*    quantity in whole units, so amount * quantity / 100 is an integer    *)
(*    number of thousandths; a value rounded to 2 decimals is held in      *)
(*    hundredths (127.5 is 12750).                                         *)
(*  - A quantity whose "value" is a number holds it under "value"; a       *)
(*    quantity whose "value" is a str holds the text under "value_str"     *)
(*    (a number and a text cannot share a field); a quantity without       *)
(*    "value" holds neither.                                               *)
(*  - In the content the vision API answers, the text of a JSON object is  *)
(*    the one token "{...}"; the object it is the text of is held beside   *)
(*    the text, under "json".                                              *)
(***************************************************************************)
EXTENDS Integers, Sequences, FiniteSets, TLC

VARIABLES
    pc,              \* position in test_image_analysis
    response,        \* analyze_image: the content the vision API answered
    error,           \* the exception test_image_analysis caught, or None
    calls,           \* the food-database calls and their returns, in order
    text_report,     \* whether Step 5 printed the text report
    html_file,       \* the HTML report file: "absent", "truncated", "written"
    vision_result,   \* result of Step 1 (process_vision_result)
    is_multiple,     \* what detect_multiple_dishes returned inside Step 2
    grouped_result,  \* result of Step 2 (group_items_by_dish)
    done_lists,      \* get_nutrition_info: the item lists already looked up
    nutrition_items, \* get_nutrition_info_for_items: its list so far
    pending,         \* the search results awaiting the detail fetch
    nutrition_data   \* result of Step 3, then of Step 4

vars == <<pc, response, error, calls, text_report, html_file, vision_result,
          is_multiple, grouped_result, done_lists, nutrition_items, pending,
          nutrition_data>>

(***************************************************************************)
(* Bounds of the model.                                                    *)
(***************************************************************************)
\* longest flat item list of a pipeline run
MaxItems == 3
\* longest flat item list handed to group_items_by_dish alone
MaxGroupItems == 5

(***************************************************************************)
(* String tables of the source.                                            *)
(***************************************************************************)
FOOD_TRANSLATIONS ==
    \* "エビ": "shrimp"
       (<<"u30A8", "u30D3">> :>
          <<"s", "h", "r", "i", "m", "p">>)
    \* "ブロッコリー": "broccoli"
    @@ (<<"u30D6", "u30ED", "u30C3", "u30B3", "u30EA", "u30FC">> :>
          <<"b", "r", "o", "c", "c", "o", "l", "i">>)
    \* "ズッキーニ": "zucchini"
    @@ (<<"u30BA", "u30C3", "u30AD", "u30FC", "u30CB">> :>
          <<"z", "u", "c", "c", "h", "i", "n", "i">>)
    \* "調味料": "seasoning"
    @@ (<<"u8ABF", "u5473", "u6599">> :>
          <<"s", "e", "a", "s", "o", "n", "i", "n", "g">>)
    \* "エビとブロッコリーの炒め物": "shrimp and broccoli stir fry"
    @@ (<<"u30A8", "u30D3", "u3068", "u30D6", "u30ED", "u30C3", "u30B3", "u30EA", "u30FC", "u306E", "u7092", "u3081", "u7269">> :>
          <<"s", "h", "r", "i", "m", "p", " ", "a", "n", "d", " ", "b", "r", "o", "c", "c", "o", "l", "i", " ", "s", "t", "i", "r", " ", "f", "r", "y">>)
    \* "卵": "egg"
    @@ (<<"u5375">> :>
          <<"e", "g", "g">>)
    \* "キャベツ": "cabbage"
    @@ (<<"u30AD", "u30E3", "u30D9", "u30C4">> :>
          <<"c", "a", "b", "b", "a", "g", "e">>)
    \* "ニラ": "chinese chives"
    @@ (<<"u30CB", "u30E9">> :>
          <<"c", "h", "i", "n", "e", "s", "e", " ", "c", "h", "i", "v", "e", "s">>)
    \* "もやし": "bean sprouts"
    @@ (<<"u3082", "u3084", "u3057">> :>
          <<"b", "e", "a", "n", " ", "s", "p", "r", "o", "u", "t", "s">>)
    \* "豚肉": "pork"
    @@ (<<"u8C5A", "u8089">> :>
          <<"p", "o", "r", "k">>)
    \* "スープ": "soup"
    @@ (<<"u30B9", "u30FC", "u30D7">> :>
          <<"s", "o", "u", "p">>)
    \* "味噌汁": "miso soup"
    @@ (<<"u5473", "u564C", "u6C41">> :>
          <<"m", "i", "s", "o", " ", "s", "o", "u", "p">>)
    \* "野菜炒め": "stir fried vegetables"
    @@ (<<"u91CE", "u83DC", "u7092", "u3081">> :>
          <<"s", "t", "i", "r", " ", "f", "r", "i", "e", "d", " ", "v", "e", "g", "e", "t", "a", "b", "l", "e", "s">>)
    \* "卵焼き": "tamagoyaki"
    @@ (<<"u5375", "u713C", "u304D">> :>
          <<"t", "a", "m", "a", "g", "o", "y", "a", "k", "i">>)
    \* "オムレツ": "omelet"
    @@ (<<"u30AA", "u30E0", "u30EC", "u30C4">> :>
          <<"o", "m", "e", "l", "e", "t">>)

NUTRIENT_TRANSLATIONS ==
    \* "Energy": "エネルギー"
       (<<"E", "n", "e", "r", "g", "y">> :>
          <<"u30A8", "u30CD", "u30EB", "u30AE", "u30FC">>)
    \* "Protein": "タンパク質"
    @@ (<<"P", "r", "o", "t", "e", "i", "n">> :>
          <<"u30BF", "u30F3", "u30D1", "u30AF", "u8CEA">>)
    \* "Total lipid (fat)": "脂質"
    @@ (<<"T", "o", "t", "a", "l", " ", "l", "i", "p", "i", "d", " ", "(", "f", "a", "t", ")">> :>
          <<"u8102", "u8CEA">>)
    \* "Carbohydrate, by difference": "炭水化物"
    @@ (<<"C", "a", "r", "b", "o", "h", "y", "d", "r", "a", "t", "e", ",", " ", "b", "y", " ", "d", "i", "f", "f", "e", "r", "e", "n", "c", "e">> :>
          <<"u70AD", "u6C34", "u5316", "u7269">>)
    \* "Fiber, total dietary": "食物繊維"
    @@ (<<"F", "i", "b", "e", "r", ",", " ", "t", "o", "t", "a", "l", " ", "d", "i", "e", "t", "a", "r", "y">> :>
          <<"u98DF", "u7269", "u7E4A", "u7DAD">>)
    \* "Sodium, Na": "ナトリウム"
    @@ (<<"S", "o", "d", "i", "u", "m", ",", " ", "N", "a">> :>
          <<"u30CA", "u30C8", "u30EA", "u30A6", "u30E0">>)
    \* "Fatty acids, total saturated": "飽和脂肪酸"
    @@ (<<"F", "a", "t", "t", "y", " ", "a", "c", "i", "d", "s", ",", " ", "t", "o", "t", "a", "l", " ", "s", "a", "t", "u", "r", "a", "t", "e", "d">> :>
          <<"u98FD", "u548C", "u8102", "u80AA", "u9178">>)
    \* "Fatty acids, total trans": "トランス脂肪酸"
    @@ (<<"F", "a", "t", "t", "y", " ", "a", "c", "i", "d", "s", ",", " ", "t", "o", "t", "a", "l", " ", "t", "r", "a", "n", "s">> :>
          <<"u30C8", "u30E9", "u30F3", "u30B9", "u8102", "u80AA", "u9178">>)

multiple_indicators ==
    << <<"u8907", "u6570">>,   \* "複数"
       <<"u30BB", "u30C3", "u30C8">>,   \* "セット"
       <<"u5B9A", "u98DF">>,   \* "定食"
       <<"u5F01", "u5F53">>,   \* "弁当"
       <<"u76DB", "u308A", "u5408", "u308F", "u305B">> >>   \* "盛り合わせ"

soup_words ==
    << <<"u30B9", "u30FC", "u30D7">>,   \* "スープ"
       <<"u6C41">>,   \* "汁"
       <<"u5473", "u564C", "u6C41">> >>   \* "味噌汁"

main_words ==
    << <<"u7092", "u3081">>,   \* "炒め"
       <<"u713C", "u304D">>,   \* "焼き"
       <<"u63DA", "u3052">>,   \* "揚げ"
       <<"u716E">> >>   \* "煮"

nutrient_keys ==
    << <<"e", "n", "e", "r", "g", "y">>,   \* "energy"
       <<"p", "r", "o", "t", "e", "i", "n">>,   \* "protein"
       <<"c", "a", "r", "b", "o", "h", "y", "d", "r", "a", "t", "e">>,   \* "carbohydrate"
       <<"f", "a", "t">>,   \* "fat"
       <<"f", "i", "b", "e", "r">>,   \* "fiber"
       <<"s", "o", "d", "i", "u", "m">> >>   \* "sodium"

\* "複数料理"
DefaultMealName == <<"u8907", "u6570", "u6599", "u7406">>
\* "味噌汁"
Name_MisoSoup == <<"u5473", "u564C", "u6C41">>
\* "野菜炒め"
Name_StirFry == <<"u91CE", "u83DC", "u7092", "u3081">>
\* "卵"
Name_Egg == <<"u5375">>
\* "焼き汁"
Name_GrilledSoup == <<"u713C", "u304D", "u6C41">>
\* "Tofu"
Name_Tofu == <<"T", "o", "f", "u">>
\* "焼き魚定食"
Meal_SetMeal == <<"u713C", "u304D", "u9B5A", "u5B9A", "u98DF">>
\* "野菜炒め"
Meal_StirFry == <<"u91CE", "u83DC", "u7092", "u3081">>
\* "BENTO弁当"
Meal_Bento == <<"B", "E", "N", "T", "O", "u5F01", "u5F53">>
\* "Energy"
Nut_Energy == <<"E", "n", "e", "r", "g", "y">>
\* "Fiber, total dietary"
Nut_Fiber == <<"F", "i", "b", "e", "r", ",", " ", "t", "o", "t", "a", "l", " ", "d", "i", "e", "t", "a", "r", "y">>
\* "Vitamin C, total ascorbic acid"
Nut_VitaminC == <<"V", "i", "t", "a", "m", "i", "n", " ", "C", ",", " ", "t", "o", "t", "a", "l", " ", "a", "s", "c", "o", "r", "b", "i", "c", " ", "a", "c", "i", "d">>
\* "Fatty acids, total saturated"
Nut_SatFat == <<"F", "a", "t", "t", "y", " ", "a", "c", "i", "d", "s", ",", " ", "t", "o", "t", "a", "l", " ", "s", "a", "t", "u", "r", "a", "t", "e", "d">>
\* "Energy (Atwater General Factors)"
Nut_EnergyAtwater == <<"E", "n", "e", "r", "g", "y", " ", "(", "A", "t", "w", "a", "t", "e", "r", " ", "G", "e", "n", "e", "r", "a", "l", " ", "F", "a", "c", "t", "o", "r", "s", ")">>

\* "メイン料理"
DishName_Main == <<"u30E1", "u30A4", "u30F3", "u6599", "u7406">>
\* "副菜"
DishName_Side == <<"u526F", "u83DC">>
\* "汁物"
DishName_Soup == <<"u6C41", "u7269">>
\* "FDCで見つかりませんでした"
NotFoundDescription == <<"F", "D", "C", "u3067", "u898B", "u3064", "u304B", "u308A", "u307E", "u305B", "u3093", "u3067", "u3057", "u305F">>
\* "エラー: "
ErrorPrefix == <<"u30A8", "u30E9", "u30FC", ":", " ">>
\* "search failed"
Msg_SearchFailed == <<"s", "e", "a", "r", "c", "h", " ", "f", "a", "i", "l", "e", "d">>
\* "fetch failed"
Msg_FetchFailed == <<"f", "e", "t", "c", "h", " ", "f", "a", "i", "l", "e", "d">>
\* "Egg, whole, raw"
Desc_Egg == <<"E", "g", "g", ",", " ", "w", "h", "o", "l", "e", ",", " ", "r", "a", "w">>
\* "Soup, miso"
Desc_Soup == <<"S", "o", "u", "p", ",", " ", "m", "i", "s", "o">>
\* "Vegetables, mixed"
Desc_Vegetables == <<"V", "e", "g", "e", "t", "a", "b", "l", "e", "s", ",", " ", "m", "i", "x", "e", "d">>
\* "g"
Unit_g == <<"g">>
\* "kcal"
Unit_kcal == <<"k", "c", "a", "l">>
\* "kJ"
Unit_kJ == <<"k", "J">>
\* "mg"
Unit_mg == <<"m", "g">>
\* "個"
Unit_piece == <<"u500B">>

AsciiUpper ==
    {"A", "B", "C", "D", "E", "F", "G", "H", "I", "J", "K", "L", "M", "N", "O", "P", "Q", "R", "S", "T", "U", "V", "W", "X", "Y", "Z"}
AsciiLower ==
    ("A" :> "a") @@ ("B" :> "b") @@ ("C" :> "c") @@ ("D" :> "d") @@ ("E" :> "e") @@ ("F" :> "f")
    @@ ("G" :> "g") @@ ("H" :> "h") @@ ("I" :> "i") @@ ("J" :> "j") @@ ("K" :> "k") @@ ("L" :> "l")
    @@ ("M" :> "m") @@ ("N" :> "n") @@ ("O" :> "o") @@ ("P" :> "p") @@ ("Q" :> "q") @@ ("R" :> "r")
    @@ ("S" :> "s") @@ ("T" :> "t") @@ ("U" :> "u") @@ ("V" :> "v") @@ ("W" :> "w") @@ ("X" :> "x")
    @@ ("Y" :> "y") @@ ("Z" :> "z")

(***************************************************************************)
(* str operations.                                                         *)
(***************************************************************************)
\* str.lower() on one character
LowerChar(c) == IF c \in AsciiUpper THEN AsciiLower[c] ELSE c

\* str.lower()
Lower(s) == [i \in 1..Len(s) |-> LowerChar(s[i])]

\* sub in s
Contains(s, sub) ==
    \E i \in 1..(Len(s) - Len(sub) + 1) : SubSeq(s, i, i + Len(sub) - 1) = sub

\* any(w in s for w in words)
ContainsAny(s, words) == \E k \in 1..Len(words) : Contains(s, words[k])

\* dict.get(k, default)
Get(d, k, default) == IF k \in DOMAIN d THEN d[k] ELSE default

\* FOOD_TRANSLATIONS.get(japanese_name, japanese_name.lower())
translate_food_name(japanese_name) ==
    Get(FOOD_TRANSLATIONS, japanese_name, Lower(japanese_name))

(***************************************************************************)
(* Dish grouping (Step 2).                                                 *)
(***************************************************************************)
\* detect_multiple_dishes with the count test off by one
detect_multiple_dishes_AtLeast4(vision_result_) ==
    LET meal_name == Lower(Get(vision_result_, "meal_name", <<>>))
        items     == Get(vision_result_, "items", <<>>)
    IN  \/ ContainsAny(meal_name, multiple_indicators)
        \/ Len(items) >= 4

detect_multiple_dishes(vision_result_) ==
    LET meal_name == Lower(Get(vision_result_, "meal_name", <<>>))
        items     == Get(vision_result_, "items", <<>>)
    IN  \/ ContainsAny(meal_name, multiple_indicators)
        \/ Len(items) > 4

\* the if/elif/else of the loop with the first two tests swapped
bucket_of_MainFirst(item) ==
    LET name == Lower(Get(item, "name", <<>>))
    IN  IF ContainsAny(name, main_words) THEN "main_dishes"
        ELSE IF ContainsAny(name, soup_words) THEN "soups"
        ELSE "side_dishes"

\* the list the loop of group_items_by_dish appends an item to
bucket_of(item) ==
    LET name == Lower(Get(item, "name", <<>>))
    IN  IF ContainsAny(name, soup_words) THEN "soups"
        ELSE IF ContainsAny(name, main_words) THEN "main_dishes"
        ELSE "side_dishes"

\* the buckets of a loop whose second test is an `if`, not an `elif`: a soup
\* item is appended to a second list as well
bucket_items_NoElif(items, bucket) ==
    SelectSeq(items, LAMBDA item :
        LET name == Lower(Get(item, "name", <<>>))
        IN  CASE bucket = "soups" -> ContainsAny(name, soup_words)
              [] bucket = "main_dishes" -> ContainsAny(name, main_words)
              [] OTHER -> ~ContainsAny(name, main_words))

\* a bucket that loses its last item
bucket_items_DropLast(items, bucket) ==
    LET all == SelectSeq(items, LAMBDA item : bucket_of(item) = bucket)
    IN  IF bucket = "side_dishes" /\ Len(all) > 1
        THEN SubSeq(all, 1, Len(all) - 1) ELSE all

\* main_dishes, side_dishes or soups once the loop has run: the items of that
\* bucket, in input order
bucket_items(items, bucket) ==
    SelectSeq(items, LAMBDA item : bucket_of(item) = bucket)

\* the dishes list: one dish per non-empty bucket, main, side, soup
dishes_of(items) ==
    LET main_dishes == bucket_items(items, "main_dishes")
        side_dishes == bucket_items(items, "side_dishes")
        soups       == bucket_items(items, "soups")
    IN  (IF main_dishes # <<>>
         THEN <<[dish_name |-> DishName_Main, items |-> main_dishes]>> ELSE <<>>)
        \o
        (IF side_dishes # <<>>
         THEN <<[dish_name |-> DishName_Side, items |-> side_dishes]>> ELSE <<>>)
        \o
        (IF soups # <<>>
         THEN <<[dish_name |-> DishName_Soup, items |-> soups]>> ELSE <<>>)

\* group_items_by_dish without its `if not dishes` return
group_items_by_dish_NoEmptyCheck(vision_result_) ==
    IF ~detect_multiple_dishes(vision_result_)
    THEN vision_result_
    ELSE LET items == Get(vision_result_, "items", <<>>)
         IN  [meal_name      |-> Get(vision_result_, "meal_name", DefaultMealName),
              dishes         |-> dishes_of(items),
              original_items |-> items]

group_items_by_dish(vision_result_) ==
    IF ~detect_multiple_dishes(vision_result_)
    THEN vision_result_
    ELSE LET items  == Get(vision_result_, "items", <<>>)
             dishes == dishes_of(items)
         IN  IF dishes = <<>>
             THEN vision_result_
             ELSE [meal_name      |-> Get(vision_result_, "meal_name", DefaultMealName),
                   dishes         |-> dishes,
                   original_items |-> items]

(***************************************************************************)
(* Inputs.                                                                 *)
(***************************************************************************)
\* an IdentifiedItem of the vision result; confidence in hundredths
Item(name, quantity, confidence) ==
    [name |-> name, quantity |-> quantity, confidence |-> confidence]

Item_MisoSoup == Item(Name_MisoSoup, [value |-> 182, unit |-> Unit_g], 90)
Item_StirFry  == Item(Name_StirFry, [value |-> 150, unit |-> Unit_g], 80)
Item_Egg      == Item(Name_Egg, [value |-> 2, unit |-> Unit_piece], 95)
\* an item whose quantity carries no value
Item_Tofu     == Item(Name_Tofu, [unit |-> Unit_g], 60)
\* an item whose quantity value is the text "2-3"
Item_EggSome  == Item(Name_Egg, [value_str |-> <<"2", "-", "3">>, unit |-> Unit_piece], 70)
\* a name with a soup word and a cooking-method word
Item_GrilledSoup == Item(Name_GrilledSoup, [value |-> 100, unit |-> Unit_g], 50)
\* an item without a name
Item_Nameless == [quantity |-> [value |-> 10, unit |-> Unit_g], confidence |-> 30]

\* all sequences over S of length 0..n
SeqsUpTo(S, n) == UNION {[1..k -> S] : k \in 0..n}

GroupItems ==
    {Item_MisoSoup, Item_StirFry, Item_Egg, Item_GrilledSoup, Item_Nameless}

GroupMealNames == {Meal_SetMeal, Meal_StirFry, Meal_Bento}

\* a vision result that already comes grouped into dishes
DishVisionResults ==
    { [meal_name |-> m,
       dishes |-> << [dish_name |-> DishName_Main, items |-> <<Item_StirFry, Item_Egg>>],
                     [dish_name |-> DishName_Soup, items |-> s] >>]
      : m \in {Meal_SetMeal, Meal_StirFry}, s \in {<<>>, <<Item_MisoSoup, Item_Egg>>} }

\* the inputs of group_items_by_dish: flat results with and without a meal
\* name, and results already grouped
GroupVisionResults ==
    {[meal_name |-> m, items |-> s] :
        m \in GroupMealNames, s \in SeqsUpTo(GroupItems, MaxGroupItems)}
    \cup {[items |-> s] : s \in SeqsUpTo(GroupItems, MaxGroupItems)}
    \cup DishVisionResults

(***************************************************************************)
(* Step 2 of test_image_analysis.                                          *)
(***************************************************************************)
GroupItemsByDish ==
    /\ pc = "group"
    /\ is_multiple' = detect_multiple_dishes(vision_result)
    /\ grouped_result' = group_items_by_dish(vision_result)
    /\ pc' = "lookup"
    /\ UNCHANGED <<vision_result, done_lists, nutrition_items, pending, nutrition_data>>
    /\ UNCHANGED <<response, error, calls, text_report, html_file>>

\* group_items_by_dish on its own, over GroupVisionResults
InitGroup ==
    /\ pc = "group"
    /\ response = <<>>
    /\ error = <<>>
    /\ calls = <<>>
    /\ text_report = FALSE
    /\ html_file = "absent"
    /\ vision_result \in GroupVisionResults
    /\ is_multiple = FALSE
    /\ grouped_result = <<>>
    /\ done_lists = <<>>
    /\ nutrition_items = <<>>
    /\ pending = <<>>
    /\ nutrition_data = <<>>

NextGroup == GroupItemsByDish

SpecGroup == InitGroup /\ [][NextGroup]_vars

(***************************************************************************)
(* The food database (food_lookup.py).  A call either raises (transport,   *)
(* HTTP or JSON failure, a missing "foods" key) or returns; what it        *)
(* returns is the content of the database below, or no candidate at all.   *)
(***************************************************************************)
Raise(message) == [raised |-> TRUE, error |-> message]
Return(value)  == [raised |-> FALSE, value |-> value]

\* one entry of a food's "foodNutrients"; amount in tenths
Nutrient(name, amount, unitName) ==
    [nutrient |-> [name |-> name, unitName |-> unitName], amount |-> amount]

\* the food details by fdcId
FoodDatabase ==
    \* miso soup: Energy is listed twice (kcal and kJ), Vitamin C is not retained
    (1 :> [description |-> Desc_Soup,
           foodNutrients |-> << Nutrient(Nut_Energy, 350, Unit_kcal),
                                Nutrient(Nut_Energy, 1460, Unit_kJ),
                                Nutrient(Nut_Fiber, 7, Unit_g),
                                Nutrient(Nut_VitaminC, 5, Unit_mg) >>])
    \* a food whose details carry no "foodNutrients"
    @@ (2 :> [description |-> Desc_Vegetables])
    \* egg: a name outside NUTRIENT_TRANSLATIONS, an entry without "amount",
    \* an entry without "nutrient"
    @@ (3 :> [description |-> Desc_Egg,
              foodNutrients |-> << Nutrient(Nut_Energy, 1430, Unit_kcal),
                                   Nutrient(Nut_Fiber, 7, Unit_g),
                                   Nutrient(Nut_EnergyAtwater, 1433, Unit_kcal),
                                   [nutrient |-> [name |-> Nut_SatFat, unitName |-> Unit_g]],
                                   [amount |-> 12] >>])

\* the candidates the database ranks for a query, best first
SearchIndex(q) ==
    IF q = FOOD_TRANSLATIONS[Name_MisoSoup] THEN <<[fdcId |-> 1], [fdcId |-> 3]>>
    ELSE IF q = FOOD_TRANSLATIONS[Name_StirFry] THEN <<[fdcId |-> 2]>>
    ELSE IF q = FOOD_TRANSLATIONS[Name_Egg] THEN <<[fdcId |-> 3], [fdcId |-> 1]>>
    ELSE IF q = Lower(Name_Tofu) THEN <<[fdcId |-> 3]>>
    ELSE <<>>

\* search_food(q): what the call can do
search_food(q) ==
    {Raise(Msg_SearchFailed), Return(<<>>), Return(SearchIndex(q))}

\* get_food(fdc_id): what the call can do
get_food(fdc_id) ==
    {Raise(Msg_FetchFailed)}
    \cup (IF fdc_id \in DOMAIN FoodDatabase
          THEN {Return(FoodDatabase[fdc_id])} ELSE {})

(***************************************************************************)
(* Lookup (Step 3): get_nutrition_info_for_items, get_nutrition_info.      *)
(***************************************************************************)
None == <<>>
Some(x) == <<x>>
\* `if x:` for x None or an int
Truthy(x) == x # None /\ x[1] # 0

\* the "nutrients" dict built from food_details: the retained entries, a
\* later entry of the same name replacing an earlier one
nutrients_of(food_details) ==
    IF "foodNutrients" \notin DOMAIN food_details
    THEN <<>>
    ELSE LET fn == food_details.foodNutrients
             nutrient_name(i) == Get(Get(fn[i], "nutrient", <<>>), "name", <<>>)
             nutrient_value(i) == Get(fn[i], "amount", 0)
             nutrient_unit(i) == Get(Get(fn[i], "nutrient", <<>>), "unitName", <<>>)
             kept == {i \in DOMAIN fn :
                        ContainsAny(Lower(nutrient_name(i)), nutrient_keys)}
             last(n) == CHOOSE i \in kept :
                            /\ nutrient_name(i) = n
                            /\ \A j \in kept : nutrient_name(j) = n => j <= i
         IN  [n \in {nutrient_name(i) : i \in kept} |->
                 [value |-> nutrient_value(last(n)), unit |-> nutrient_unit(last(n))]]

\* the nutrition_item of a successful search and fetch
found_item(item, fdc_id, food_details) ==
    [name_jp         |-> item.name,
     name_en         |-> translate_food_name(item.name),
     quantity        |-> item.quantity,
     confidence      |-> item.confidence,
     fdc_id          |-> Some(fdc_id),
     fdc_description |-> Get(food_details, "description", <<>>),
     nutrients       |-> nutrients_of(food_details)]

\* the nutrition_item of a search without candidates
not_found_item(item) ==
    [name_jp         |-> item.name,
     name_en         |-> translate_food_name(item.name),
     quantity        |-> item.quantity,
     confidence      |-> item.confidence,
     fdc_id          |-> None,
     fdc_description |-> NotFoundDescription,
     nutrients       |-> <<>>]

\* the except branch recording the not-found message, not the error text
error_item_NoText(item, e) ==
    [name_jp         |-> item.name,
     name_en         |-> translate_food_name(item.name),
     quantity        |-> item.quantity,
     confidence      |-> item.confidence,
     fdc_id          |-> None,
     fdc_description |-> NotFoundDescription,
     nutrients       |-> <<>>]

\* the nutrition_item of the except branch
error_item(item, e) ==
    [name_jp         |-> item.name,
     name_en         |-> translate_food_name(item.name),
     quantity        |-> item.quantity,
     confidence      |-> item.confidence,
     fdc_id          |-> None,
     fdc_description |-> ErrorPrefix \o e,
     nutrients       |-> <<>>]

\* the item lists get_nutrition_info hands to get_nutrition_info_for_items,
\* in call order
item_lists(grouped) ==
    IF "dishes" \in DOMAIN grouped
    THEN [d \in 1..Len(grouped.dishes) |-> grouped.dishes[d].items]
    ELSE <<grouped.items>>

\* the nutrition_data get_nutrition_info returns, given the looked-up lists
nutrition_data_of(grouped, lists) ==
    IF "dishes" \in DOMAIN grouped
    THEN [meal_name    |-> grouped.meal_name,
          meal_name_en |-> translate_food_name(grouped.meal_name),
          dishes       |-> [d \in 1..Len(grouped.dishes) |->
                               [dish_name |-> grouped.dishes[d].dish_name,
                                items     |-> lists[d]]]]
    ELSE [meal_name    |-> grouped.meal_name,
          meal_name_en |-> translate_food_name(grouped.meal_name),
          items        |-> lists[1]]

\* the items of a list taken from its end
current_item_FromEnd ==
    LET items == item_lists(grouped_result)[Len(done_lists) + 1]
    IN  items[Len(items) - Len(nutrition_items)]

\* the item whose search is due
current_item == item_lists(grouped_result)[Len(done_lists) + 1][Len(nutrition_items) + 1]

\* Control of get_nutrition_info from the point where `cur` is the list of
\* the running get_nutrition_info_for_items call and `done` the lists of the
\* calls that returned: run to the next search_food call, or to the return.
RECURSIVE run_to_next_call(_, _, _)
run_to_next_call(lists, done, cur) ==
    IF Len(done) = Len(lists)
    THEN [at |-> "return", done |-> done, cur |-> <<>>]
    ELSE IF Len(cur) = Len(lists[Len(done) + 1])
    THEN run_to_next_call(lists, Append(done, cur), <<>>)
    ELSE [at |-> "search", done |-> done, cur |-> cur]

\* the rest of an action of the lookup: from (done, cur) to the next call
Resume(done, cur) ==
    LET lists == item_lists(grouped_result)
        to    == run_to_next_call(lists, done, cur)
    IN  /\ done_lists' = to.done
        /\ nutrition_items' = to.cur
        /\ pending' = <<>>
        /\ IF to.at = "search"
           THEN pc' = "search" /\ UNCHANGED <<nutrition_data, error>>
           ELSE IF "meal_name" \in DOMAIN grouped_result
           THEN /\ pc' = "scale"
                /\ nutrition_data' = nutrition_data_of(grouped_result, to.done)
                /\ UNCHANGED error
           ELSE /\ pc' = "failed"
                /\ error' = Some("KeyError")
                /\ UNCHANGED nutrition_data

\* a failed item ends the batch: the list so far is what the call returns
Record_AbortBatch(nutrition_item) ==
    LET lists == item_lists(grouped_result)
        rest  == [k \in 1..(Len(lists) - Len(done_lists) - 1) |-> <<>>]
    IN  IF nutrition_item.fdc_id = None
        THEN Resume(Append(done_lists, nutrition_items) \o rest, <<>>)
        ELSE Resume(done_lists, Append(nutrition_items, nutrition_item))

\* an item of the batch is recorded and the loop goes on
Record(nutrition_item) ==
    Resume(done_lists, Append(nutrition_items, nutrition_item))

\* the events of `calls`
SearchCall(q) == [op |-> "search_food", q |-> q]
SearchReturn(r) ==
    [op |-> "return", of |-> "search_food", raised |-> r.raised,
     candidates |-> IF r.raised THEN <<>>
                    ELSE [k \in DOMAIN r.value |-> r.value[k].fdcId]]
GetCall(fdc_id) == [op |-> "get_food", fdc_id |-> fdc_id]
GetReturn(r) == [op |-> "return", of |-> "get_food", raised |-> r.raised]

\* the search_food call the loop issues when it goes on to its next item
next_search_call ==
    IF pc' = "search"
    THEN <<SearchCall(translate_food_name(current_item'.name))>>
    ELSE <<>>

\* get_nutrition_info is entered and runs to its first search_food call
GetNutritionInfo ==
    /\ pc = "lookup"
    /\ IF "dishes" \in DOMAIN grouped_result /\ "meal_name" \notin DOMAIN grouped_result
       THEN /\ pc' = "failed"
            /\ error' = Some("KeyError")
            /\ UNCHANGED <<done_lists, nutrition_items, pending, nutrition_data>>
       ELSE Resume(<<>>, <<>>)
    /\ UNCHANGED <<vision_result, is_multiple, grouped_result>>
    /\ UNCHANGED <<response, text_report, html_file>>
    /\ calls' = calls \o next_search_call

\* search_food(english_name) returns or raises
SearchFood ==
    /\ pc = "search"
    /\ \E r \in search_food(translate_food_name(current_item.name)) :
          /\ IF r.raised
             THEN Record(error_item(current_item, r.error))
             ELSE IF r.value = <<>>
             THEN Record(not_found_item(current_item))
             ELSE /\ pending' = r.value
                  /\ pc' = "fetch"
                  /\ UNCHANGED <<done_lists, nutrition_items, nutrition_data, error>>
          /\ UNCHANGED <<vision_result, is_multiple, grouped_result>>
          /\ calls' = Append(calls, SearchReturn(r))
                         \o (IF pc' = "fetch"
                             THEN <<GetCall(pending'[1].fdcId)>>
                             ELSE next_search_call)
    /\ UNCHANGED <<response, text_report, html_file>>

\* get_food(fdc_id) returns or raises
GetFood ==
    /\ pc = "fetch"
    /\ LET fdc_id == pending[1].fdcId
       IN  \E r \in get_food(fdc_id) :
              /\ IF r.raised
                 THEN Record(error_item(current_item, r.error))
                 ELSE Record(found_item(current_item, fdc_id, r.value))
              /\ UNCHANGED <<vision_result, is_multiple, grouped_result>>
              /\ calls' = Append(calls, GetReturn(r)) \o next_search_call
    /\ UNCHANGED <<response, text_report, html_file>>

(***************************************************************************)
(* Scaling (Step 4): calculate_actual_nutrition_for_items,                 *)
(* calculate_actual_nutrition.                                             *)
(***************************************************************************)
\* round(x, 2) cutting the third decimal instead of rounding
Round2_Truncate(thousandths) == thousandths \div 10

\* round(x, 2) of a value given in thousandths, in hundredths.  A tie is
\* rounded to even; the quantities of the model are even, so no value or sum
\* of values of the model is a tie.
Round2(thousandths) ==
    LET q == thousandths \div 10
        r == thousandths % 10
    IN  IF r < 5 THEN q
        ELSE IF r > 5 THEN q + 1
        ELSE IF q % 2 = 0 THEN q ELSE q + 1

\* NUTRIENT_TRANSLATIONS.get(nutrient_name, nutrient_name)
jp_name_of(nutrient_name) == Get(NUTRIENT_TRANSLATIONS, nutrient_name, nutrient_name)

\* (per_100g_value * quantity_g) / 100, in thousandths
actual_value_of(item, nutrient_name) ==
    item.nutrients[nutrient_name].value * item.quantity.value

\* the actual_nutrients dict the inner loop builds for an item
actual_nutrients_of(item) ==
    LET original(jp_name) ==
            CHOOSE n \in DOMAIN item.nutrients : jp_name_of(n) = jp_name
    IN  [jp_name \in {jp_name_of(n) : n \in DOMAIN item.nutrients} |->
            [value         |-> Round2(actual_value_of(item, original(jp_name))),
             unit          |-> item.nutrients[original(jp_name)].unit,
             original_name |-> original(jp_name)]]

\* dish_total after the inner loop has run for an item: the unrounded values
\* are added, a new name takes the unit of the item that brings it
dish_total_add(dish_total, item) ==
    LET names == {jp_name_of(n) : n \in DOMAIN item.nutrients}
        original(jp_name) ==
            CHOOSE n \in DOMAIN item.nutrients : jp_name_of(n) = jp_name
    IN  [jp_name \in DOMAIN dish_total \cup names |->
            IF jp_name \notin names
            THEN dish_total[jp_name]
            ELSE IF jp_name \in DOMAIN dish_total
            THEN [value |-> dish_total[jp_name].value
                              + actual_value_of(item, original(jp_name)),
                  unit  |-> dish_total[jp_name].unit]
            ELSE [value |-> 0 + actual_value_of(item, original(jp_name)),
                  unit  |-> item.nutrients[original(jp_name)].unit]]

\* the closing loop: every total rounded to 2 decimals
dish_total_rounded(dish_total) ==
    [jp_name \in DOMAIN dish_total |->
        [value |-> Round2(dish_total[jp_name].value),
         unit  |-> dish_total[jp_name].unit]]

\* the scaled values written over the per-100 values as well
with_actual_nutrients_InPlace(item) ==
    LET actual == actual_nutrients_of(item)
    IN  [k \in DOMAIN item \cup {"actual_nutrients"} |->
            IF k = "actual_nutrients" THEN actual
            ELSE IF k = "nutrients"
            THEN [n \in DOMAIN item.nutrients |->
                     [value |-> actual[jp_name_of(n)].value,
                      unit  |-> item.nutrients[n].unit]]
            ELSE item[k]]

\* item["actual_nutrients"] = actual_nutrients
with_actual_nutrients(item) ==
    [k \in DOMAIN item \cup {"actual_nutrients"} |->
        IF k = "actual_nutrients" THEN actual_nutrients_of(item) ELSE item[k]]

\* an item scaled whatever its lookup gave
is_scaled_Always(item) == TRUE

\* if item["fdc_id"] and item["nutrients"]
is_scaled(item) == Truthy(item.fdc_id) /\ item.nutrients # <<>>

\* what reading and multiplying item["quantity"]["value"] raises: KeyError
\* without the key, TypeError for a str (str * float, or (str * int) / 100)
quantity_error(quantity) ==
    IF "value" \in DOMAIN quantity THEN None
    ELSE IF "value_str" \in DOMAIN quantity THEN Some("TypeError")
    ELSE Some("KeyError")

\* the loop from item i on; `out` are the items as the loop left them.  A
\* quantity that raises leaves the items before it scaled.
RECURSIVE scale_from(_, _, _, _)
scale_from(items, i, out, dish_total) ==
    IF i > Len(items)
    THEN [raised |-> FALSE, items |-> out, dish_total |-> dish_total_rounded(dish_total)]
    ELSE IF is_scaled(items[i])
    THEN IF quantity_error(items[i].quantity) # None
         THEN [raised |-> TRUE, items |-> out \o SubSeq(items, i, Len(items)),
               dish_total |-> dish_total,
               error |-> quantity_error(items[i].quantity)[1]]
         ELSE scale_from(items, i + 1, Append(out, with_actual_nutrients(items[i])),
                         dish_total_add(dish_total, items[i]))
    ELSE scale_from(items, i + 1, Append(out, items[i]), dish_total)

calculate_actual_nutrition_for_items(items) == scale_from(items, 1, <<>>, <<>>)

\* overall_total after the loop over dish_total has run for a dish
overall_total_add(overall_total, dish_total) ==
    [jp_name \in DOMAIN overall_total \cup DOMAIN dish_total |->
        IF jp_name \notin DOMAIN dish_total
        THEN overall_total[jp_name]
        ELSE IF jp_name \in DOMAIN overall_total
        THEN [value |-> overall_total[jp_name].value + dish_total[jp_name].value,
              unit  |-> overall_total[jp_name].unit]
        ELSE [value |-> 0 + dish_total[jp_name].value,
              unit  |-> dish_total[jp_name].unit]]

\* the closing loop over overall_total: the sums are sums of hundredths
overall_total_rounded(overall_total) ==
    [jp_name \in DOMAIN overall_total |->
        [value |-> Round2(10 * overall_total[jp_name].value),
         unit  |-> overall_total[jp_name].unit]]

\* dict d with d[k] = v
With(d, k, v) == [x \in DOMAIN d \cup {k} |-> IF x = k THEN v ELSE d[x]]

\* the loop over the dishes from dish d on
RECURSIVE scale_dishes_from(_, _, _)
scale_dishes_from(nutrition_data_, d, overall_total) ==
    IF d > Len(nutrition_data_.dishes)
    THEN [raised |-> FALSE,
          data   |-> With(nutrition_data_, "total_nutrition",
                          overall_total_rounded(overall_total))]
    ELSE LET dish == nutrition_data_.dishes[d]
             r    == calculate_actual_nutrition_for_items(dish.items)
         IN  IF r.raised
             THEN [raised |-> TRUE,
                   error  |-> r.error,
                   data   |-> [nutrition_data_ EXCEPT
                                 !.dishes[d] = With(dish, "items", r.items)]]
             ELSE scale_dishes_from(
                      [nutrition_data_ EXCEPT
                          !.dishes[d] = With(With(dish, "items", r.items),
                                             "dish_nutrition", r.dish_total)],
                      d + 1,
                      overall_total_add(overall_total, r.dish_total))

\* calculate_actual_nutrition: the data as the call leaves it, and whether it
\* raised
calculate_actual_nutrition(nutrition_data_) ==
    IF "dishes" \in DOMAIN nutrition_data_
    THEN scale_dishes_from(nutrition_data_, 1, <<>>)
    ELSE LET r == calculate_actual_nutrition_for_items(nutrition_data_.items)
         IN  IF r.raised
             THEN [raised |-> TRUE, error |-> r.error,
                   data |-> With(nutrition_data_, "items", r.items)]
             ELSE [raised |-> FALSE,
                   data   |-> With(With(nutrition_data_, "items", r.items),
                                   "total_nutrition", r.dish_total)]

\* Step 4 going on to Step 5 whatever the scaling did
CalculateActualNutrition_Swallow ==
    /\ pc = "scale"
    /\ nutrition_data' = calculate_actual_nutrition(nutrition_data).data
    /\ pc' = "done"
    /\ UNCHANGED <<vision_result, is_multiple, grouped_result, done_lists,
                   nutrition_items, pending>>
    /\ UNCHANGED <<response, error, calls, text_report, html_file>>

\* Step 4 of test_image_analysis
CalculateActualNutrition ==
    /\ pc = "scale"
    /\ LET r == calculate_actual_nutrition(nutrition_data)
       IN  /\ nutrition_data' = r.data
           /\ pc' = IF r.raised THEN "failed" ELSE "done"
           /\ error' = IF r.raised THEN Some(r.error) ELSE error
    /\ UNCHANGED <<vision_result, is_multiple, grouped_result, done_lists,
                   nutrition_items, pending>>
    /\ UNCHANGED <<response, calls, text_report, html_file>>

(***************************************************************************)
(* The pipeline: test_image_analysis.                                      *)
(***************************************************************************)
ItemDomain == {Item_MisoSoup, Item_StirFry, Item_Egg, Item_Tofu}

MealNames == {Meal_SetMeal, Meal_StirFry}

\* item lists with a quantity value that is a text
TextQuantityLists ==
    {<<Item_EggSome>>, <<Item_Egg, Item_EggSome>>, <<Item_EggSome, Item_Tofu>>}

VisionResults ==
    {[meal_name |-> m, items |-> s] :
        m \in MealNames, s \in SeqsUpTo(ItemDomain, MaxItems)}
    \cup DishVisionResults
    \cup {[meal_name |-> m, items |-> s] :
            m \in MealNames, s \in TextQuantityLists}
    \cup {[meal_name |-> Meal_SetMeal,
           dishes    |-> <<[dish_name |-> DishName_Main, items |-> <<Item_Egg>>],
                           [dish_name |-> DishName_Side,
                            items |-> <<Item_EggSome, Item_MisoSoup>>]>>]}

(***************************************************************************)
(* Vision (Step 1): process_vision_result, analyze_image.                  *)
(***************************************************************************)
\* three backquotes (U+0060), and three backquotes followed by json
Fence     == <<"u0060", "u0060", "u0060">>
FenceJson == <<"u0060", "u0060", "u0060", "j", "s", "o", "n">>
\* the text of a JSON object
JsonObject == "{...}"
\* the characters str.strip() removes
Whitespace == {" ", "\n"}

\* s.startswith(prefix), s.endswith(suffix)
StartsWith(s, prefix) ==
    Len(s) >= Len(prefix) /\ SubSeq(s, 1, Len(prefix)) = prefix
EndsWith(s, suffix) ==
    Len(s) >= Len(suffix) /\ SubSeq(s, Len(s) - Len(suffix) + 1, Len(s)) = suffix

\* s.strip()
RECURSIVE LStrip(_)
LStrip(s) == IF s # <<>> /\ Head(s) \in Whitespace THEN LStrip(Tail(s)) ELSE s
RECURSIVE RStrip(_)
RStrip(s) ==
    IF s # <<>> /\ s[Len(s)] \in Whitespace
    THEN RStrip(SubSeq(s, 1, Len(s) - 1))
    ELSE s
Strip(s) == RStrip(LStrip(s))

\* the three fence tests of analyze_image, then content.strip()
strip_code_fence(content) ==
    LET a == IF StartsWith(content, FenceJson)
             THEN SubSeq(content, 7 + 1, Len(content)) ELSE content
        b == IF StartsWith(a, Fence) THEN SubSeq(a, 3 + 1, Len(a)) ELSE a
        c == IF EndsWith(b, Fence) THEN SubSeq(b, 1, Len(b) - 3) ELSE b
    IN  Strip(c)

\* json.loads(content): the object, when the content is the text of one
json_loads(content, api_response) ==
    IF content = <<JsonObject>>
    THEN Return(api_response.json)
    ELSE Raise("JSONDecodeError")

\* analyze_image handing whatever is left of the content to json.loads
analyze_image_NoEmptyCheck(api_response) ==
    json_loads(strip_code_fence(api_response.text), api_response)

\* analyze_image from the content of the API response on
analyze_image(api_response) ==
    LET content == strip_code_fence(api_response.text)
    IN  IF content = <<>>
        THEN Raise("ValueError")
        ELSE json_loads(content, api_response)

\* contents carrying the object v: fenced as json, fenced, bare
FencedJson(v) ==
    [text |-> FenceJson \o <<"\n", JsonObject, "\n">> \o Fence, json |-> v]
Fenced(v) == [text |-> Fence \o <<"\n", JsonObject, "\n">> \o Fence, json |-> v]
Bare(v)   == [text |-> <<JsonObject>>, json |-> v]

\* contents with nothing but fence markers and white space
EmptyContents ==
    {[text |-> t] :
        t \in {<<>>, Fence, FenceJson, <<" ", "\n">>,
               FenceJson \o <<"\n">> \o Fence, Fence \o Fence}}

\* contents json.loads rejects: prose, a fence after white space, a fence
\* followed by a line break
BrokenContents ==
    {[text |-> <<"S", "o", "r", "r", "y">>],
     [text |-> <<" ">> \o FenceJson \o <<"\n", JsonObject, "\n">> \o Fence],
     [text |-> FenceJson \o <<"\n", JsonObject, "\n">> \o Fence \o <<"\n">>]}

\* what client.chat.completions.create gives: an error or a content
chat_completion ==
    {Raise("APIError")}
    \cup {Return(c) : c \in EmptyContents \cup BrokenContents}
    \cup {Return(FencedJson(v)) : v \in VisionResults}
    \cup {Return(Fenced(v)) : v \in VisionResults}
    \cup {Return(Bare(v)) : v \in VisionResults}

\* process_vision_result up to the call of the vision API
ProcessVisionResult ==
    /\ pc = "vision"
    /\ \E exists \in BOOLEAN :
          IF exists
          THEN pc' = "analyze" /\ UNCHANGED error
          ELSE pc' = "failed" /\ error' = Some("FileNotFoundError")
    /\ UNCHANGED <<response, calls, text_report, html_file, vision_result,
                   is_multiple, grouped_result, done_lists, nutrition_items,
                   pending, nutrition_data>>

\* the vision API returns or raises
AnalyzeImageCall ==
    /\ pc = "analyze"
    /\ \E r \in chat_completion :
          IF r.raised
          THEN pc' = "failed" /\ error' = Some(r.error) /\ UNCHANGED response
          ELSE pc' = "parse" /\ response' = r.value /\ UNCHANGED error
    /\ UNCHANGED <<calls, text_report, html_file, vision_result,
                   is_multiple, grouped_result, done_lists, nutrition_items,
                   pending, nutrition_data>>

\* the rest of analyze_image: the content is cleaned and parsed
AnalyzeImageParse ==
    /\ pc = "parse"
    /\ LET r == analyze_image(response)
       IN  IF r.raised
           THEN /\ pc' = "failed"
                /\ error' = Some(r.error)
                /\ UNCHANGED <<response, vision_result>>
           ELSE /\ pc' = "group"
                /\ vision_result' = r.value
                /\ response' = <<>>
                /\ UNCHANGED error
    /\ UNCHANGED <<calls, text_report, html_file, is_multiple, grouped_result,
                   done_lists, nutrition_items, pending, nutrition_data>>

\* the lists of items of a report, dish by dish
lists_of(report) ==
    IF "dishes" \in DOMAIN report
    THEN [d \in 1..Len(report.dishes) |-> report.dishes[d].items]
    ELSE <<report.items>>

(***************************************************************************)
(* Reports (Step 5): format_nutrition_report, generate_html_report and the *)
(* write of the HTML file.                                                 *)
(***************************************************************************)
\* what item['quantity']['value'] raises in an f-string of a report: the
\* text report and the HTML table read it for every item, scaled or not
report_error(nutrition_data_) ==
    LET lists == lists_of(nutrition_data_)
    IN  IF \E d \in DOMAIN lists : \E i \in DOMAIN lists[d] :
              quantity_error(lists[d][i].quantity) = Some("KeyError")
        THEN Some("KeyError")
        ELSE None

\* what open(output_filename, "w") and f.write(html_report) leave of the
\* file: written; not created when open raises; created and cut short when
\* the write raises
write_outcomes == {"written", "absent", "truncated"}

\* format_nutrition_report and the print of the text report
FormatNutritionReport ==
    /\ pc = "done"
    /\ IF report_error(nutrition_data) # None
       THEN /\ pc' = "failed"
            /\ error' = report_error(nutrition_data)
            /\ UNCHANGED text_report
       ELSE /\ pc' = "html"
            /\ text_report' = TRUE
            /\ UNCHANGED error
    /\ UNCHANGED <<response, calls, html_file, vision_result, is_multiple,
                   grouped_result, done_lists, nutrition_items, pending,
                   nutrition_data>>

\* generate_html_report, the write of the file and the closing prints
WriteHtmlReport ==
    /\ pc = "html"
    /\ IF report_error(nutrition_data) # None
       THEN /\ pc' = "failed"
            /\ error' = report_error(nutrition_data)
            /\ UNCHANGED html_file
       ELSE \E outcome \in write_outcomes :
               /\ html_file' = outcome
               /\ IF outcome = "written"
                  THEN pc' = "success" /\ UNCHANGED error
                  ELSE pc' = "failed" /\ error' = Some("OSError")
    /\ UNCHANGED <<response, calls, text_report, vision_result, is_multiple,
                   grouped_result, done_lists, nutrition_items, pending,
                   nutrition_data>>

Init ==
    /\ pc = "vision"
    /\ response = <<>>
    /\ error = <<>>
    /\ calls = <<>>
    /\ text_report = FALSE
    /\ html_file = "absent"
    /\ vision_result = <<>>
    /\ is_multiple = FALSE
    /\ grouped_result = <<>>
    /\ done_lists = <<>>
    /\ nutrition_items = <<>>
    /\ pending = <<>>
    /\ nutrition_data = <<>>

Next ==
    \/ ProcessVisionResult
    \/ AnalyzeImageCall
    \/ AnalyzeImageParse
    \/ GroupItemsByDish
    \/ GetNutritionInfo
    \/ SearchFood
    \/ GetFood
    \/ CalculateActualNutrition
    \/ FormatNutritionReport
    \/ WriteHtmlReport

Spec == Init /\ [][Next]_vars

(***************************************************************************)
(* calculate_actual_nutrition applied again to the report it returned.     *)
(***************************************************************************)
CalculateActualNutritionAgain ==
    /\ pc = "done"
    /\ LET r == calculate_actual_nutrition(nutrition_data)
       IN  /\ nutrition_data' = r.data
           /\ pc' = IF r.raised THEN "failed" ELSE "rescaled"
           /\ error' = IF r.raised THEN Some(r.error) ELSE error
    /\ UNCHANGED <<vision_result, is_multiple, grouped_result, done_lists,
                   nutrition_items, pending>>
    /\ UNCHANGED <<response, calls, text_report, html_file>>

NextAgain ==
    \/ ProcessVisionResult
    \/ AnalyzeImageCall
    \/ AnalyzeImageParse
    \/ GroupItemsByDish
    \/ GetNutritionInfo
    \/ SearchFood
    \/ GetFood
    \/ CalculateActualNutrition
    \/ CalculateActualNutritionAgain

SpecAgain == Init /\ [][NextAgain]_vars

(***************************************************************************)
(* Claims.                                                                 *)
(***************************************************************************)
RECURSIVE Flatten(_)
\* the concatenation of a sequence of sequences
Flatten(ss) == IF ss = <<>> THEN <<>> ELSE Head(ss) \o Flatten(Tail(ss))

\* how often x occurs in s
Count(s, x) == Cardinality({i \in DOMAIN s : s[i] = x})

\* the last element of a non-empty sequence
Last(s) == s[Len(s)]

\* the IdentifiedItem a nutrition item was made from
identified(nutrition_item) ==
    [name       |-> nutrition_item.name_jp,
     quantity   |-> nutrition_item.quantity,
     confidence |-> nutrition_item.confidence]

\* the items of a report that sit directly under "items"
items_under_report(report) ==
    IF "items" \in DOMAIN report THEN report.items ELSE <<>>

\* the items of a report that sit in a dish
items_in_dishes(report) ==
    IF "dishes" \in DOMAIN report
    THEN Flatten([d \in 1..Len(report.dishes) |-> report.dishes[d].items])
    ELSE <<>>

\* C1: when the pipeline has run on a vision result with a flat item list,
\* every input item occurs in the report exactly as often as in the input,
\* counting the items under "items" and the items in the dishes together:
\* none is dropped, none is in both places or in two dishes.
C1_EveryItemExactlyOnce ==
    (pc = "done" /\ "items" \in DOMAIN vision_result) =>
        LET out == items_under_report(nutrition_data) \o items_in_dishes(nutrition_data)
            ids == [i \in DOMAIN out |-> identified(out[i])]
        IN  /\ Len(out) = Len(vision_result.items)
            /\ \A x \in ItemDomain : Count(ids, x) = Count(vision_result.items, x)

\* a grouped report of three input items, two of them the same, one lookup
\* failed and one found
C1_Witness ==
    /\ pc = "done"
    /\ "items" \in DOMAIN vision_result
    /\ Len(vision_result.items) = 3
    /\ Count(vision_result.items, Item_Egg) = 2
    /\ "dishes" \in DOMAIN nutrition_data
    /\ Len(nutrition_data.dishes) = 2
    /\ \E i, j \in 1..3 :
          /\ items_in_dishes(nutrition_data)[i].fdc_id = None
          /\ items_in_dishes(nutrition_data)[j].fdc_id # None

\* the i-th element carries the name, quantity and confidence of the i-th input
Carries(nutrition_item, item) == identified(nutrition_item) = item

\* C2: while and after get_nutrition_info runs, every get_nutrition_info_for_items
\* call that returned gave a list as long as its input whose i-th element
\* carries the i-th input item, the running call has recorded exactly the items
\* before the one it is looking up, in order, and the lookup never fails the
\* run: a failed run has passed the lookup.
C2_LookupKeepsLengthAndOrder ==
    (pc \in {"search", "fetch", "scale", "done"}
        \/ (pc = "failed" /\ nutrition_data # <<>>)) =>
        LET lists == item_lists(grouped_result)
        IN  /\ Len(done_lists) <= Len(lists)
            /\ \A d \in 1..Len(done_lists) :
                  /\ Len(done_lists[d]) = Len(lists[d])
                  /\ \A i \in 1..Len(lists[d]) : Carries(done_lists[d][i], lists[d][i])
            /\ pc \in {"search", "fetch"} =>
                  /\ Len(done_lists) < Len(lists)
                  /\ Len(nutrition_items) < Len(lists[Len(done_lists) + 1])
                  /\ \A i \in 1..Len(nutrition_items) :
                        Carries(nutrition_items[i], lists[Len(done_lists) + 1][i])
            /\ pc \in {"scale", "done", "failed"} => Len(done_lists) = Len(lists)

\* a call returned three items: the first search raised, the second item was
\* found, the third search had no candidate
C2_Witness ==
    /\ pc = "scale"
    /\ \E d \in 1..Len(done_lists) :
          /\ Len(done_lists[d]) = 3
          /\ done_lists[d][1].fdc_description = ErrorPrefix \o Msg_SearchFailed
          /\ done_lists[d][2].fdc_id # None
          /\ done_lists[d][3].fdc_description = NotFoundDescription

\* every nutrition item recorded so far, in the order of recording
AllRecorded == Flatten(done_lists) \o nutrition_items

\* the not-found shape with one of the given descriptions
NotFoundShape(x, descriptions) ==
    /\ x.fdc_id = None
    /\ x.nutrients = <<>>
    /\ x.fdc_description \in descriptions

\* C3: a search_food call that leads to no get_food call (no candidate, or it
\* raised) records one item with fdc_id None, empty nutrients and the
\* not-found message or the error text; a get_food call records one item,
\* either of that shape with the error text (it raised) or with the fdcId of
\* the first candidate; nothing else records an item, so a non-None fdc_id
\* comes only from a search with a candidate and a fetch that succeeded.
C3_FailedLookupShape ==
    [][ /\ pc \notin {"search", "fetch"} => AllRecorded' = AllRecorded
        /\ (pc = "search" /\ pc' = "fetch") =>
              /\ AllRecorded' = AllRecorded
              /\ pending' # <<>>
        /\ (pc = "search" /\ pc' # "fetch") =>
              /\ AllRecorded' = Append(AllRecorded, Last(AllRecorded'))
              /\ NotFoundShape(Last(AllRecorded'),
                               {NotFoundDescription, ErrorPrefix \o Msg_SearchFailed})
        /\ pc = "fetch" =>
              /\ AllRecorded' = Append(AllRecorded, Last(AllRecorded'))
              /\ \/ NotFoundShape(Last(AllRecorded'), {ErrorPrefix \o Msg_FetchFailed})
                 \/ /\ Last(AllRecorded').fdc_id = Some(pending[1].fdcId)
                    /\ pending[1].fdcId \in DOMAIN FoodDatabase
      ]_vars

\* a fetch raised for one item, a search found nothing for another and a
\* third item was found
C3_Witness ==
    \E i, j, k \in DOMAIN AllRecorded :
        /\ AllRecorded[i].fdc_description = ErrorPrefix \o Msg_FetchFailed
        /\ AllRecorded[i].fdc_id = None
        /\ AllRecorded[j].fdc_description = NotFoundDescription
        /\ AllRecorded[k].fdc_id # None

\* every item of a report
report_items(report) == items_under_report(report) \o items_in_dishes(report)

\* h hundredths is thousandths rounded to 2 decimals
IsRounded(h, thousandths) == 10 * h - thousandths \in -5..5

\* C4: in a scaled report, every item with fdc_id present and non-empty
\* nutrients has, for each retained nutrient with per-100 value V, an
\* actual_nutrients entry under the translated name (the name itself when
\* NUTRIENT_TRANSLATIONS has none) with value round(V * quantity / 100, 2),
\* the nutrient's unit and the untranslated name as original_name.
C4_ScaledValue ==
    pc = "done" =>
        \A i \in DOMAIN report_items(nutrition_data) :
            LET item == report_items(nutrition_data)[i]
            IN  (item.fdc_id # None /\ item.nutrients # <<>>) =>
                    /\ "actual_nutrients" \in DOMAIN item
                    /\ \A n \in DOMAIN item.nutrients :
                          LET jp == IF n \in DOMAIN NUTRIENT_TRANSLATIONS
                                    THEN NUTRIENT_TRANSLATIONS[n] ELSE n
                          IN  /\ jp \in DOMAIN item.actual_nutrients
                              /\ IsRounded(item.actual_nutrients[jp].value,
                                           item.nutrients[n].value * item.quantity.value)
                              /\ item.actual_nutrients[jp].unit = item.nutrients[n].unit
                              /\ item.actual_nutrients[jp].original_name = n

\* an egg of quantity 2 was scaled: 143.3 per 100 gives 2.87 under the
\* untranslated name, 143.0 gives 2.86 under the translated one
C4_Witness ==
    /\ pc = "done"
    /\ \E i \in DOMAIN report_items(nutrition_data) :
          LET item == report_items(nutrition_data)[i]
          IN  /\ "actual_nutrients" \in DOMAIN item
              /\ Nut_EnergyAtwater \in DOMAIN item.actual_nutrients
              /\ item.actual_nutrients[Nut_EnergyAtwater].value = 287
              /\ NUTRIENT_TRANSLATIONS[Nut_Energy] \in DOMAIN item.actual_nutrients
              /\ item.actual_nutrients[NUTRIENT_TRANSLATIONS[Nut_Energy]].value = 286

RECURSIVE SumSeq(_)
\* the sum of a sequence of numbers
SumSeq(s) == IF s = <<>> THEN 0 ELSE Head(s) + SumSeq(Tail(s))

\* the items of a sequence that carry nutrient name n in actual_nutrients
carrying(items, n) ==
    SelectSeq(items, LAMBDA item :
        "actual_nutrients" \in DOMAIN item /\ n \in DOMAIN item.actual_nutrients)

\* the sum of the stored (rounded) actual_nutrients[n].value over the items
\* carrying n, in hundredths
stored_sum(items, n) ==
    LET c == carrying(items, n)
    IN  SumSeq([i \in DOMAIN c |-> c[i].actual_nutrients[n].value])

\* the nutrient names of the actual_nutrients of a sequence of items
actual_names(items) ==
    UNION {DOMAIN items[i].actual_nutrients :
              i \in {j \in DOMAIN items : "actual_nutrients" \in DOMAIN items[j]}}

\* C5: in a scaled report, flat or grouped, total_nutrition[n].value is the
\* sum, rounded to 2 decimals, of the stored actual_nutrients[n].value of the
\* items carrying n, for every name n in any item's actual_nutrients.  (A sum
\* of hundredths is its own rounding to 2 decimals.)
C5_TotalIsSumOfStored ==
    pc = "done" =>
        LET items == report_items(nutrition_data)
        IN  \A n \in actual_names(items) :
                /\ n \in DOMAIN nutrition_data.total_nutrition
                /\ nutrition_data.total_nutrition[n].value = stored_sum(items, n)

\* the report of a dish-grouped report's items, ungrouped
flat_report(report) ==
    [meal_name    |-> report.meal_name,
     meal_name_en |-> report.meal_name_en,
     items        |-> items_in_dishes(report)]

\* C6: the total_nutrition of a dish-grouped report is the total_nutrition of
\* the flat report over the same items.
C6_TotalIndependentOfGrouping ==
    (pc = "done" /\ "dishes" \in DOMAIN nutrition_data) =>
        nutrition_data.total_nutrition
            = calculate_actual_nutrition(flat_report(nutrition_data)).data.total_nutrition

\* the flat item list of a vision result, empty when it has none
flat_items(result) == Get(result, "items", <<>>)

\* the meal name contains one of the indicator substrings
HasIndicator(result) ==
    \E k \in DOMAIN multiple_indicators :
        Contains(Get(result, "meal_name", <<>>), multiple_indicators[k])

\* C7: detect_multiple_dishes returns true exactly when the meal name contains
\* an indicator or the flat item list has more than 4 entries.
C7_DetectIff ==
    pc = "lookup" =>
        (is_multiple <=> (HasIndicator(vision_result) \/ Len(flat_items(vision_result)) > 4))

\* five items and no indicator: true
C7_Witness ==
    /\ pc = "lookup"
    /\ ~HasIndicator(vision_result)
    /\ Len(flat_items(vision_result)) = 5
    /\ is_multiple

\* group_items_by_dish built the dishes wrapper
Wrapped == pc = "lookup" /\ "original_items" \in DOMAIN grouped_result

\* C8: when group_items_by_dish builds the dishes wrapper, original_items is
\* the input's flat list, the dishes' item counts add up to its length, and
\* every item occurs in the dishes together as often as in that list (in
\* exactly one dish, when it occurs once).
C8_DishesPartitionItems ==
    Wrapped =>
        LET items == flat_items(vision_result)
            in_dishes == items_in_dishes(grouped_result)
        IN  /\ grouped_result.original_items = items
            /\ SumSeq([d \in DOMAIN grouped_result.dishes |->
                          Len(grouped_result.dishes[d].items)]) = Len(items)
            /\ \A x \in GroupItems : Count(in_dishes, x) = Count(items, x)

\* five items without an indicator, one of them twice, in two dishes
C8_Witness ==
    /\ Wrapped
    /\ ~HasIndicator(vision_result)
    /\ Len(vision_result.items) = 5
    /\ Count(vision_result.items, Item_Egg) = 2
    /\ Len(grouped_result.dishes) = 2

\* the place of a dish name in the fixed order, 0 for any other name
rank(dish_name) ==
    CASE dish_name = DishName_Main -> 1
      [] dish_name = DishName_Side -> 2
      [] dish_name = DishName_Soup -> 3
      [] OTHER -> 0

\* the place of the bucket the claim gives an item
expected_rank(item) ==
    LET name == Get(item, "name", <<>>)
    IN  IF \E k \in DOMAIN soup_words : Contains(name, soup_words[k]) THEN 3
        ELSE IF \E k \in DOMAIN main_words : Contains(name, main_words[k]) THEN 1
        ELSE 2

\* C9: in the dishes wrapper there are 1 to 3 dishes, none empty, named
\* main-dish, side-dish, soup in that order; the soup dish holds the items
\* whose name contains a soup keyword, the main dish those of the others whose
\* name contains a cooking-method keyword, the side dish the rest, each in
\* input order, and every non-empty bucket is a dish.
C9_BucketsByPriority ==
    Wrapped =>
        LET items == grouped_result.original_items
            dishes == grouped_result.dishes
        IN  /\ Len(dishes) \in 1..3
            /\ \A d \in DOMAIN dishes :
                  /\ rank(dishes[d].dish_name) # 0
                  /\ dishes[d].items # <<>>
                  /\ dishes[d].items =
                        SelectSeq(items, LAMBDA item :
                            expected_rank(item) = rank(dishes[d].dish_name))
            /\ \A d1, d2 \in DOMAIN dishes :
                  d1 < d2 => rank(dishes[d1].dish_name) < rank(dishes[d2].dish_name)
            /\ \A i \in DOMAIN items :
                  \E d \in DOMAIN dishes : rank(dishes[d].dish_name) = expected_rank(items[i])

\* three dishes; the item whose name has a soup and a cooking-method keyword
\* is in the soup dish, the item without a name in the side dish
C9_Witness ==
    /\ Wrapped
    /\ Len(grouped_result.dishes) = 3
    /\ Count(grouped_result.dishes[3].items, Item_GrilledSoup) = 1
    /\ Count(grouped_result.dishes[2].items, Item_Nameless) = 1
    /\ Count(grouped_result.dishes[1].items, Item_StirFry) = 1

\* C10: group_items_by_dish returns its input unchanged when
\* detect_multiple_dishes is false and when the input has no flat items; when
\* detect_multiple_dishes is true and there are flat items it returns the
\* wrapper, with dishes and original_items and without items.
C10_UnchangedUnlessGrouped ==
    pc = "lookup" =>
        /\ (~is_multiple \/ flat_items(vision_result) = <<>>) =>
              grouped_result = vision_result
        /\ (is_multiple /\ flat_items(vision_result) # <<>>) =>
              /\ DOMAIN grouped_result = {"meal_name", "dishes", "original_items"}
              /\ grouped_result.dishes # <<>>

\* an already grouped vision result whose meal name has an indicator comes
\* back unchanged
C10_Witness ==
    /\ pc = "lookup"
    /\ is_multiple
    /\ "dishes" \in DOMAIN vision_result
    /\ "items" \notin DOMAIN vision_result
    /\ grouped_result = vision_result

(***************************************************************************)
(* C11: an item whose lookup failed (fdc_id None) is still in the scaled   *)
(* report, at its place, and has no actual_nutrients; total_nutrition and  *)
(* the dish_nutrition of its dish are the ones the report has when the     *)
(* looked-up lists are scaled without the failed items.                    *)
(***************************************************************************)
\* the elements of a sequence
Range(s) == {s[i] : i \in DOMAIN s}

\* the items of a list whose lookup did not fail
SelectFound(items) == SelectSeq(items, LAMBDA x : x.fdc_id # None)

\* the looked-up report without the items whose lookup failed
without_failed(report) ==
    IF "dishes" \in DOMAIN report
    THEN [report EXCEPT !.dishes =
             [d \in 1..Len(report.dishes) |->
                 With(report.dishes[d], "items", SelectFound(report.dishes[d].items))]]
    ELSE With(report, "items", SelectFound(report.items))

C11_FailedItemsLeaveTotals ==
    pc = "done" =>
        LET looked_up == nutrition_data_of(grouped_result, done_lists)
            reduced   == calculate_actual_nutrition(without_failed(looked_up)).data
            scaled    == lists_of(nutrition_data)
        IN  /\ \A d \in DOMAIN done_lists :
                  /\ Len(scaled[d]) = Len(done_lists[d])
                  /\ \A i \in DOMAIN done_lists[d] :
                        done_lists[d][i].fdc_id = None =>
                            scaled[d][i] = done_lists[d][i]
            /\ \A x \in Range(report_items(nutrition_data)) :
                  x.fdc_id = None => "actual_nutrients" \notin DOMAIN x
            /\ nutrition_data.total_nutrition = reduced.total_nutrition
            /\ "dishes" \in DOMAIN nutrition_data =>
                  \A d \in DOMAIN nutrition_data.dishes :
                     nutrition_data.dishes[d].dish_nutrition
                        = reduced.dishes[d].dish_nutrition

\* a scaled report with a failed item next to items that bring nutrients
C11_Witness ==
    /\ pc = "done"
    /\ \E x \in Range(report_items(nutrition_data)) : x.fdc_id = None
    /\ \E x \in Range(report_items(nutrition_data)) : "actual_nutrients" \in DOMAIN x
    /\ nutrition_data.total_nutrition # <<>>

(***************************************************************************)
(* C12: when Step 4 meets an item it scales (fdc_id and nutrients present) *)
(* whose quantity has no "value" or a "value" that is not a number, the    *)
(* call raises: the run goes to its failure exit, the report gets no       *)
(* total_nutrition and the item gets no actual_nutrients in place of the   *)
(* missing quantity; with no such item the scaling completes.              *)
(***************************************************************************)
\* the items Step 4 would scale whose quantity cannot be multiplied
malformed_scaled(report) ==
    {x \in Range(report_items(report)) :
        is_scaled(x) /\ quantity_error(x.quantity) # None}

C12_MalformedQuantityAborts ==
    [][pc = "scale" =>
          IF malformed_scaled(nutrition_data) # {}
          THEN /\ pc' = "failed"
               /\ "total_nutrition" \notin DOMAIN nutrition_data'
               /\ \A x \in malformed_scaled(nutrition_data') :
                     "actual_nutrients" \notin DOMAIN x
               /\ malformed_scaled(nutrition_data') = malformed_scaled(nutrition_data)
          ELSE /\ pc' = "done"
               /\ "total_nutrition" \in DOMAIN nutrition_data']_vars

\* a run that failed in Step 4 on a report with both kinds of quantity
C12_Witness ==
    /\ pc = "failed"
    /\ nutrition_data # <<>>
    /\ "total_nutrition" \notin DOMAIN nutrition_data
    /\ \E x \in malformed_scaled(nutrition_data) : "value_str" \in DOMAIN x.quantity
    /\ \E x \in malformed_scaled(nutrition_data) : DOMAIN x.quantity = {"unit"}

(***************************************************************************)
(* C13: in a run of test_image_analysis, when the content of the vision    *)
(* response is empty once the fence markers and the white space are        *)
(* stripped, analyze_image raises ValueError and the run ends in failure   *)
(* with no food-database call issued; and at any point of any run, a       *)
(* food-database call has been issued only after Step 1 returned a vision  *)
(* result.  A run that has failed takes no further step.                   *)
(***************************************************************************)
C13_NoDatabaseCallBeforeVision ==
    [][ /\ pc # "failed"
        /\ (pc = "parse" /\ strip_code_fence(response.text) = <<>>) =>
              /\ pc' = "failed"
              /\ error' = Some("ValueError")
              /\ calls' = <<>>
              /\ vision_result' = <<>>
        /\ calls' # <<>> =>
              /\ vision_result' # <<>>
              /\ pc' \notin {"vision", "analyze", "parse", "group"}
        /\ vision_result' = <<>> => calls' = <<>>
      ]_vars

\* a run that failed on a content holding an empty fenced block
C13_Witness ==
    /\ pc = "failed"
    /\ error = Some("ValueError")
    /\ response # <<>>
    /\ response.text = FenceJson \o <<"\n">> \o Fence
    /\ strip_code_fence(response.text) = <<>>
    /\ calls = <<>>

(***************************************************************************)
(* C14: a run of test_image_analysis that failed (it took the except exit  *)
(* and returns False) on anything but a per-item lookup failure has        *)
(* emitted no partial output: the text report has not been printed and     *)
(* the HTML report file has not been created.                              *)
(***************************************************************************)
C14_FailureWithoutPartialOutput ==
    pc = "failed" =>
        /\ error # None
        /\ text_report = FALSE
        /\ html_file = "absent"

(***************************************************************************)
(* C15: the food-database calls are issued one after the other, in input   *)
(* order.  In the log of calls and returns every call is followed by its   *)
(* return before the next call; the k-th search_food call is for the k-th  *)
(* input item (dish by dish), and when the lookup has returned there is    *)
(* exactly one per item; a get_food call comes only right after the        *)
(* return of a search that gave at least one candidate, with the id of the *)
(* first candidate, and such a return is always followed by it; any other  *)
(* return is followed by the search of the next item.                      *)
(***************************************************************************)
\* the places of the search_food calls in the log
search_calls == {i \in DOMAIN calls : calls[i].op = "search_food"}

\* whether the return at place i gave at least one candidate
gave_candidates(i) ==
    /\ calls[i].op = "return"
    /\ calls[i].of = "search_food"
    /\ ~calls[i].raised
    /\ calls[i].candidates # <<>>

C15_CallsSequentialInInputOrder ==
    calls # <<>> =>
        LET items == Flatten(item_lists(grouped_result))
            nth(i) == Cardinality({j \in search_calls : j <= i})
        IN  /\ \A i \in DOMAIN calls :
                  IF i % 2 = 1
                  THEN calls[i].op \in {"search_food", "get_food"}
                  ELSE calls[i].op = "return" /\ calls[i].of = calls[i - 1].op
            /\ (Len(calls) % 2 = 1) <=> (pc \in {"search", "fetch"})
            /\ \A i \in search_calls :
                  /\ nth(i) <= Len(items)
                  /\ calls[i].q = translate_food_name(items[nth(i)].name)
            /\ \A i \in DOMAIN calls :
                  calls[i].op = "get_food" =>
                      /\ i > 2
                      /\ gave_candidates(i - 1)
                      /\ calls[i].fdc_id = calls[i - 1].candidates[1]
            /\ \A i \in DOMAIN calls :
                  calls[i].op = "return" =>
                      IF gave_candidates(i)
                      THEN i < Len(calls) /\ calls[i + 1].op = "get_food"
                      ELSE i < Len(calls) => calls[i + 1].op = "search_food"
            /\ pc \notin {"search", "fetch"} =>
                  Cardinality(search_calls) = Len(items)

\* a lookup that returned after three items: a search gave two candidates
\* and the fetch followed, a search raised, a search gave no candidate
C15_Witness ==
    /\ pc = "scale"
    /\ Cardinality(search_calls) = 3
    /\ \E i \in DOMAIN calls : gave_candidates(i) /\ Len(calls[i].candidates) = 2
    /\ \E i \in DOMAIN calls :
          calls[i].op = "return" /\ calls[i].of = "search_food" /\ calls[i].raised
    /\ \E i \in DOMAIN calls :
          /\ calls[i].op = "return" /\ calls[i].of = "search_food"
          /\ ~calls[i].raised /\ calls[i].candidates = <<>>

(***************************************************************************)
(* C16: calculate_actual_nutrition applied to the report it returned,      *)
(* flat or grouped in dishes, returns and leaves the report as it was:     *)
(* the same actual_nutrients for every item, the same dish_nutrition for   *)
(* every dish, the same total_nutrition.  And no application, first or     *)
(* second, completed or raising, changes anything of an item but its       *)
(* actual_nutrients: name, quantity, confidence, fdc_id and nutrients      *)
(* stay, no item is added, dropped or moved.                               *)
(***************************************************************************)
\* item `after` is item `before` but for actual_nutrients
SameButActual(before, after) ==
    /\ DOMAIN after \ {"actual_nutrients"} = DOMAIN before \ {"actual_nutrients"}
    /\ \A k \in DOMAIN before \ {"actual_nutrients"} : after[k] = before[k]

C16_ScalingIdempotent ==
    [][ /\ pc \in {"scale", "done"} =>
              /\ DOMAIN lists_of(nutrition_data') = DOMAIN lists_of(nutrition_data)
              /\ \A d \in DOMAIN lists_of(nutrition_data) :
                    /\ Len(lists_of(nutrition_data')[d])
                          = Len(lists_of(nutrition_data)[d])
                    /\ \A i \in DOMAIN lists_of(nutrition_data)[d] :
                          SameButActual(lists_of(nutrition_data)[d][i],
                                        lists_of(nutrition_data')[d][i])
        /\ pc = "done" =>
              /\ pc' = "rescaled"
              /\ nutrition_data' = nutrition_data
      ]_vars

\* a report of two dishes scaled twice, with values to scale in both
C16_Witness ==
    /\ pc = "rescaled"
    /\ "dishes" \in DOMAIN nutrition_data
    /\ Len(nutrition_data.dishes) = 2
    /\ \A d \in DOMAIN nutrition_data.dishes :
          nutrition_data.dishes[d].dish_nutrition # <<>>
    /\ nutrition_data.total_nutrition # <<>>
====
